---- MODULE Spec2Model ----
(***************************************************************************)
(* The ligand-parameterization tutorial notebooks of                       *)
(* biobb_wf_ligand_parameterization as a state machine.                    *)
(*                                                                         *)
(* A notebook is a list of code cells executed in order by one kernel      *)
(* ("Run All").  A pipeline cell assigns its path variables and its prop   *)
(* dictionary and then calls one building block, which blocks until the    *)
(* external tool has finished; the value the block returns (the tool's     *)
(* exit code) is not looked at by the cell.  An exception raised in a cell *)
(* stops the execution of the remaining cells.  A visualization cell opens *)
(* a structure file in a widget; the user may execute it again whenever    *)
(* the kernel is not busy.                                                 *)
(*                                                                         *)
(* The two variants (GROMACS, CNS) are the two notebooks held in           *)
(* notebooks/biobb_wf_ligand_parameterization.ipynb.  What the external    *)
(* tools do is taken from the output recorded in                           *)
(* html/biobb_ligand_parameterization_tutorial.web.ipynb; where the        *)
(* sources do not fix it, it is a nondeterministic choice.                 *)
(***************************************************************************)
EXTENDS Integers, Sequences, FiniteSets, TLC

VARIABLES
    variant,    \* which notebook is executed: "GMX" or "CNS"
    pc,         \* index, in Cells, of the next cell to execute
    status,     \* "idle", "in_call" (kernel blocked in a tool), "halted", "done"
    ns,         \* the kernel's namespace: Python variable name -> value
    fs,         \* the working directory: path -> [by, format, content, how]
    created,    \* the paths of the working directory, in order of creation
    wlog,       \* every write of a file by a pipeline step: <<[step, path]>>
    rlog,       \* every read of a file by a pipeline step: <<[step, path, by]>>
    calls,      \* every call of a building block, in order, with its arguments
    results,    \* what each finished call did: <<[step, exit, wrote, warned]>>
    busy,       \* the pipeline steps whose tool is executing
    open,       \* the files held by an executing step: {<<step, path>>}
    colab,      \* whether 'google.colab' is a loaded module of the kernel
    repo,       \* whether the cloned repository is in the start directory
    cwd,        \* the kernel's working directory
    colab_log,  \* what the Colab cells have launched or switched on, in order
    colab_exit, \* the exit status of each entry of colab_log
    byhand,     \* how many cells the user has selected by hand
    iter,       \* the last step the running minimizer has reported (0 when none runs)
    prev        \* what each earlier run left: <<[inputs, fs, written, results, memo]>>

env == <<colab, repo, cwd, colab_log, colab_exit, byhand>>

vars == <<variant, pc, status, ns, fs, created, wlog, rlog, calls, results, busy, open,
          colab, repo, cwd, colab_log, colab_exit, byhand, iter, prev>>

----------------------------------------------------------------------------
(* Bounds of the model: how many ligand codes and which net charges the    *)
(* user may type into the input-parameters cell.                           *)

NumCodes == 2

MaxCharge == 1

CodeList == <<"IBP", "G39", "SAS", "ATP">>

LigandCodes == {CodeList[i] : i \in 1..NumCodes}

Charges == (0 - MaxCharge)..MaxCharge

PHValues == {"7.4", "2.0"}

Variants == {"GMX", "CNS"}

----------------------------------------------------------------------------
(* Strings.                                                                *)

\* The index of the last "." of s at or before position i, 0 when none.
RECURSIVE LastDot(_, _)
LastDot(s, i) ==
    IF i = 0 THEN 0
    ELSE IF SubSeq(s, i, i) = "." THEN i
    ELSE LastDot(s, i - 1)

\* The format a tool takes a path to hold when none is declared: the text
\* after the last "." of the file name.
Ext(path) ==
    LET d == LastDot(path, Len(path))
    IN  IF d = 0 THEN "" ELSE SubSeq(path, d + 1, Len(path))

IsPrefix(p, s) == Len(p) <= Len(s) /\ SubSeq(s, 1, Len(p)) = p

----------------------------------------------------------------------------
(* The namespace.                                                          *)

Assign(n, name, val) ==
    [x \in (DOMAIN n) \cup {name} |-> IF x = name THEN val ELSE n[x]]

Defined(n, names) == names \subseteq DOMAIN n

\* The variables of the input-parameters cell.
Inputs == {"ligandCode", "mol_charge", "pH"}

----------------------------------------------------------------------------
(* The cells of the two notebooks, in document order.                      *)

CellsGMX ==
    << "colab_install", "colab_widgets", "input", "fetch", "viz_fetch", "addh", "viz_addh", "min", "viz_min",
       "viz_all", "acpype_gmx", "viz_acpype_gmx" >>

\* Mutant: the CNS notebook also carries the GROMACS parameter cell.
CellsCNSBoth ==
    << "input", "fetch", "viz_fetch", "addh", "viz_addh", "min", "viz_min",
       "viz_all", "acpype_gmx", "acpype_cns", "viz_acpype_cns" >>

CellsCNS ==
    << "input", "fetch", "viz_fetch", "addh", "viz_addh", "min", "viz_min",
       "viz_all", "acpype_cns", "viz_acpype_cns" >>

Cells == IF variant = "GMX" THEN CellsGMX ELSE CellsCNS

PipelineSteps == {"fetch", "addh", "min", "acpype_gmx", "acpype_cns"}

VizCells ==
    {"viz_fetch", "viz_addh", "viz_min", "viz_all", "viz_acpype_gmx", "viz_acpype_cns"}

\* The step whose output a step consumes.
Pred(step) ==
    CASE step = "addh" -> "fetch"
      [] step = "min" -> "addh"
      [] step \in {"acpype_gmx", "acpype_cns"} -> "min"
      [] OTHER -> "none"

NoPath == ""

StartDir == "."

RepoURL == "https://github.com/bioexcel/biobb_wf_ligand_parameterization.git"

\* Path(repo_URL).name.split('.')[0]
RepoName == "biobb_wf_ligand_parameterization"

NotebooksDir == RepoName \o "/" \o RepoName \o "/notebooks"

----------------------------------------------------------------------------
(* The file names and option sets the cells build.                         *)

input_structure(ligandCode) == ligandCode \o ".pdb"

\* Mutant: the hydrogenated structure is named as a PDB file.
output_babel_h_pdb(ligandCode) == ligandCode \o ".H.pdb"

output_babel_h(ligandCode) == ligandCode \o ".H.mol2"

output_babel_min(ligandCode) == ligandCode \o ".H.min.pdb"

output_acpype_gro(ligandCode) == ligandCode \o "params.gro"

output_acpype_itp(ligandCode) == ligandCode \o "params.itp"

output_acpype_top(ligandCode) == ligandCode \o "params.top"

output_acpype_inp(ligandCode) == ligandCode \o "params.inp"

output_acpype_par(ligandCode) == ligandCode \o "params.par"

\* Mutant: the CNS copy is written over the fetched structure.
output_acpype_pdb_clash(ligandCode) == ligandCode \o ".pdb"

output_acpype_pdb(ligandCode) == ligandCode \o "params.pdb"

\* Mutant: the basename is built with a separator the file names do not have.
output_acpype_sep(ligandCode) == ligandCode \o "_params"

output_acpype(ligandCode) == ligandCode \o "params"

prop_ligand(n) == [ligand_code |-> n["ligandCode"]]

prop_add_hydrogens(n) ==
    [ph |-> n["pH"], input_format |-> "pdb", output_format |-> "mol2"]

\* Mutant: the minimizer's option set also carries a step limit.
prop_minimize_steps ==
    [method |-> "sd", criteria |-> "1e-10", force_field |-> "GAFF", steps |-> "2500"]

prop_minimize == [method |-> "sd", criteria |-> "1e-10", force_field |-> "GAFF"]

\* Mutant: the net charge is left at the tool's default instead of the user's.
prop_acpype_neutral(n) == [basename |-> n["output_acpype"], charge |-> 0]

prop_acpype(n) == [basename |-> n["output_acpype"], charge |-> n["mol_charge"]]

\* The variables a pipeline cell reads from cells before it.
Reads(cell) ==
    CASE cell = "fetch" -> {"ligandCode"}
      [] cell = "addh" -> {"ligandCode", "pH", "input_structure"}
      [] cell = "min" -> {"ligandCode", "output_babel_h"}
      [] cell \in {"acpype_gmx", "acpype_cns"} -> {"ligandCode", "mol_charge", "output_babel_min"}
      [] OTHER -> {}

\* The input_path argument of each call.
input_of_add_hydrogens(n) == n["input_structure"]

input_of_minimize(n) == n["output_babel_h"]

\* Mutant: the parameter generator is given the structure before minimization.
input_of_acpype_stale(n) == n["output_babel_h"]

input_of_acpype(n) == n["output_babel_min"]

----------------------------------------------------------------------------
(* The external tools, as far as the recorded run shows them.              *)

\* The format a tool reads its input as: obabel is told (-ipdb), obminimize
\* and acpype go by the file name (-imol2 IBP.H.mol2, "converting pdb input
\* file").
ReadFormat(tool, props, input) ==
    CASE tool = "ligand" -> ""
      [] tool = "babel_add_hydrogens" -> props.input_format
      [] OTHER -> Ext(input)

\* The format a tool writes into an output path: the fetcher writes PDB,
\* obabel what it is told (-omol2), the others go by the file name (-opdb).
WrittenFormat(cl, path) ==
    CASE cl.tool = "ligand" -> "pdb"
      [] cl.tool = "babel_add_hydrogens" -> cl.props.output_format
      [] OTHER -> Ext(path)

Permutations3(o) ==
    { <<o[i], o[j], o[k]>> : <<i, j, k>> \in
        {t \in (1..3) \X (1..3) \X (1..3) : t[1] # t[2] /\ t[1] # t[3] /\ t[2] # t[3]} }

\* Mutant: every tool creates its outputs in the order of its arguments.
WriteOrdersAsGiven(cl) == { cl.outputs }

\* The order in which a tool creates its output files.  The GROMACS wrapper
\* logs .top, .itp, .gro; no run of the CNS wrapper is recorded.
WriteOrders(cl) ==
    CASE cl.tool = "acpype_params_gmx" -> { <<cl.outputs[3], cl.outputs[2], cl.outputs[1]>> }
      [] cl.tool = "acpype_params_cns" -> Permutations3(cl.outputs)
      [] OTHER -> { cl.outputs }

\* A tool can only succeed on an input that holds a structure.
InputGood(cl) ==
    \/ cl.input = NoPath
    \/ cl.input \in DOMAIN fs /\ fs[cl.input].content = "data"

----------------------------------------------------------------------------
(* The working directory.                                                  *)

Disk == [fs |-> fs, created |-> created, wlog |-> wlog, rlog |-> rlog]

Producer(f, path) == IF path \in DOMAIN f THEN f[path].by ELSE "nobody"

\* Mutant: a file that is already there is appended to.
WriteFileAppending(D, step, path, fmt, content, how) ==
    [D EXCEPT
        !.fs = Assign(D.fs, path,
                      [by |-> step, format |-> fmt, content |-> content,
                       how |-> IF path \in DOMAIN D.fs
                               THEN D.fs[path].how \o how ELSE how]),
        !.created = IF path \in DOMAIN D.fs THEN D.created ELSE Append(D.created, path),
        !.wlog = Append(D.wlog, [step |-> step, path |-> path])]

\* A write replaces what the path held.
WriteFile(D, step, path, fmt, content, how) ==
    [D EXCEPT
        !.fs = Assign(D.fs, path,
                      [by |-> step, format |-> fmt, content |-> content, how |-> how]),
        !.created = IF path \in DOMAIN D.fs THEN D.created ELSE Append(D.created, path),
        !.wlog = Append(D.wlog, [step |-> step, path |-> path])]

\* What the bytes a tool writes are made from: the option sets of the calls
\* that led to them, in order (the tool's own last).  An empty file is made
\* from nothing.
MadeFrom(f, cl, content) ==
    IF content = "empty" THEN << >>
    ELSE IF cl.input \in DOMAIN f THEN Append(f[cl.input].how, cl.props)
    ELSE << cl.props >>

RECURSIVE WriteFilesFrom(_, _, _, _, _)
WriteFilesFrom(D, cl, order, content, how) ==
    IF order = << >> THEN D
    ELSE WriteFilesFrom(
            WriteFile(D, cl.step, Head(order), WrittenFormat(cl, Head(order)), content, how),
            cl, Tail(order), content, how)

WriteFiles(D, cl, order, content) ==
    WriteFilesFrom(D, cl, order, content, MadeFrom(D.fs, cl, content))

ReadFile(D, step, path) ==
    [D EXCEPT !.rlog = Append(D.rlog,
                    [step |-> step, path |-> path, by |-> Producer(D.fs, path)])]

\* Mutant: the minimized structure is moved, not copied.
CopyFileMoving(D, step, src, dst) ==
    IF src \notin DOMAIN D.fs
    THEN [disk |-> D, raised |-> TRUE]
    ELSE LET W == WriteFile(ReadFile(D, step, src), step, dst,
                            D.fs[src].format, D.fs[src].content, D.fs[src].how)
         IN  [disk |-> [W EXCEPT !.fs = [p \in (DOMAIN W.fs) \ {src} |-> W.fs[p]]],
              raised |-> FALSE]

\* shutil.copyfile(src, dst): a byte copy; FileNotFoundError without src.
CopyFile(D, step, src, dst) ==
    IF src \notin DOMAIN D.fs
    THEN [disk |-> D, raised |-> TRUE]
    ELSE [disk |-> WriteFile(ReadFile(D, step, src), step, dst,
                             D.fs[src].format, D.fs[src].content, D.fs[src].how),
          raised |-> FALSE]

\* What a pipeline cell executes after its building block has returned.
RestOfCell(D, cell, n) ==
    IF cell = "acpype_cns"
    THEN CopyFile(D, cell, n["output_babel_min"], n["output_acpype_pdb"])
    ELSE [disk |-> D, raised |-> FALSE]

SetDisk(D) ==
    /\ fs' = D.fs
    /\ created' = D.created
    /\ wlog' = D.wlog
    /\ rlog' = D.rlog

----------------------------------------------------------------------------
(* Control: one kernel, cells in order.                                    *)

AtCell(name) == status = "idle" /\ pc <= Len(Cells) /\ Cells[pc] = name

\* The cell has finished: on to the next one, or stop at an exception.  A
\* cell the user executed by hand has no cell queued behind it.
CellEnds(raised) ==
    /\ pc' = IF raised THEN pc ELSE pc + 1
    /\ status' = IF raised THEN "halted"
                 ELSE IF pc + 1 > Len(Cells) \/ byhand > 0 THEN "done" ELSE "idle"

\* Mutant: the call is launched in the background and the next cell starts.
LaunchControlAsync ==
    [pc |-> pc + 1, status |-> IF pc + 1 > Len(Cells) THEN "done" ELSE "idle"]

\* A building block is called synchronously: the cell stays where it is
\* until the call returns.
LaunchControl == [pc |-> pc, status |-> "in_call"]

PathsOf(cl) ==
    {cl.outputs[i] : i \in 1..Len(cl.outputs)}
        \cup (IF cl.input = NoPath THEN {} ELSE {cl.input})

Launch(cl) ==
    /\ calls' = Append(calls, cl)
    /\ busy' = busy \cup {cl.step}
    /\ open' = open \cup {<<cl.step, p>> : p \in PathsOf(cl)}
    /\ rlog' = IF cl.input = NoPath THEN rlog ELSE ReadFile(Disk, cl.step, cl.input).rlog
    /\ pc' = LaunchControl.pc
    /\ status' = LaunchControl.status
    /\ UNCHANGED <<variant, fs, created, wlog, results, env, iter, prev>>

Call(step, tool, input, outputs, props) ==
    [step |-> step, tool |-> tool, input |-> input, outputs |-> outputs,
     props |-> props, read_as |-> ReadFormat(tool, props, input)]

----------------------------------------------------------------------------
(* The cells.                                                              *)

Init ==
    /\ variant \in Variants
    /\ pc = 1
    /\ status = "idle"
    /\ ns = << >>
    /\ fs = << >>
    /\ created = << >>
    /\ wlog = << >>
    /\ rlog = << >>
    /\ calls = << >>
    /\ results = << >>
    /\ busy = {}
    /\ open = {}
    /\ colab \in BOOLEAN
    /\ repo \in BOOLEAN
    /\ cwd = StartDir
    /\ colab_log = << >>
    /\ colab_exit = << >>
    /\ byhand = 0
    /\ iter = 0
    /\ prev = << >>

----------------------------------------------------------------------------
(* The two Colab cells (GROMACS notebook only).                            *)

\* Mutant: the environment is updated before the repository is cloned.
InstallCommandsEnvFirst ==
    << "pip install condacolab", "condacolab.install()",
       "mamba env update -n base -f " \o RepoName \o "/conda_env/environment.yml" >>
    \o (IF repo THEN << >> ELSE << "mamba install -y git", "git clone " \o RepoURL >>)
    \o << "mamba install -y -c conda-forge nglview==3.0.8 ipywidgets=7.7.2" >>

\* What the install cell runs once "conda -V" has not found conda, in order.
InstallCommands ==
    << "pip install condacolab", "condacolab.install()" >>
    \o (IF repo THEN << >> ELSE << "mamba install -y git", "git clone " \o RepoURL >>)
    \o << "mamba env update -n base -f " \o RepoName \o "/conda_env/environment.yml",
          "mamba install -y -c conda-forge nglview==3.0.8 ipywidgets=7.7.2" >>

\* Mutant: the install cell looks for conda whether or not it is under Colab.
ColabInstallCellUnguarded ==
    /\ AtCell("colab_install")
    /\ colab_log' = Append(colab_log, "conda -V")
    /\ colab_exit' = Append(colab_exit, "0")
    /\ CellEnds(FALSE)
    /\ UNCHANGED <<variant, ns, fs, created, wlog, rlog, calls, results, busy, open,
                   colab, repo, cwd, byhand, iter, prev>>

\* Mutant: subprocess.run without check=True: a failing command is passed over.
RunUnchecked(cmds, k) ==
    [launched |-> cmds,
     exits    |-> [i \in 1..Len(cmds) |-> IF i = k + 1 THEN "nonzero" ELSE "0"],
     raised   |-> FALSE]

\* A series of subprocess.run(cmd, check=True): the first k commands exit
\* with status 0 and, when that is not all of them, the next one is launched,
\* exits non-zero and raises CalledProcessError.
RunChecked(cmds, k) ==
    LET n == IF k < Len(cmds) THEN k + 1 ELSE k
    IN  [launched |-> SubSeq(cmds, 1, n),
         exits    |-> [i \in 1..n |-> IF i <= k THEN "0" ELSE "nonzero"],
         raised   |-> k < Len(cmds)]

\* "Only executed when using google colab".  Under Colab 'conda -V' is run:
\* when the executable is there it exits with some status; when it is not,
\* FileNotFoundError is caught (the command never ran) and the bootstrap
\* commands run.
ColabInstallCell ==
    /\ AtCell("colab_install")
    /\ \/ /\ ~colab
          /\ CellEnds(FALSE)
          /\ UNCHANGED <<repo, colab_log, colab_exit>>
       \/ /\ colab
          /\ \E k \in 0..1 :
                LET r == RunChecked(<< "conda -V" >>, k)
                IN  /\ colab_log' = colab_log \o r.launched
                    /\ colab_exit' = colab_exit \o r.exits
                    /\ CellEnds(r.raised)
          /\ UNCHANGED repo
       \/ /\ colab
          /\ \E k \in 0..Len(InstallCommands) :
                LET r == RunChecked(InstallCommands, k)
                IN  /\ colab_log' = colab_log \o r.launched
                    /\ colab_exit' = colab_exit \o r.exits
                    /\ repo' = (repo \/ \E i \in 1..k : InstallCommands[i] = "git clone " \o RepoURL)
                    /\ CellEnds(r.raised)
    /\ UNCHANGED <<variant, ns, fs, created, wlog, rlog, calls, results, busy, open, colab, cwd, byhand, iter, prev>>

\* "Enable widgets for colab": the widget manager, then os.chdir into the
\* cloned repository's notebooks directory, which raises when it is not there.
ColabWidgetsCell ==
    /\ AtCell("colab_widgets")
    /\ \/ /\ ~colab
          /\ CellEnds(FALSE)
          /\ UNCHANGED <<cwd, colab_log, colab_exit>>
       \/ /\ colab
          /\ colab_log' = Append(colab_log, "output.enable_custom_widget_manager()")
          /\ colab_exit' = Append(colab_exit, "0")
          /\ cwd' = IF repo THEN NotebooksDir ELSE cwd
          /\ CellEnds(~repo)
    /\ UNCHANGED <<variant, ns, fs, created, wlog, rlog, calls, results, busy, open, colab, repo, byhand, iter, prev>>

\* Mutant: the input-parameters cell is executed again while the run is on.
InputParametersAgain ==
    /\ status = "idle"
    /\ pc <= Len(Cells)
    /\ Cells[pc] \in {"input", "addh", "min"}
    /\ \E c \in LigandCodes, q \in Charges, p \in PHValues :
          ns' = Assign(Assign(Assign(ns, "ligandCode", c), "mol_charge", q), "pH", p)
    /\ pc' = IF Cells[pc] = "input" THEN pc + 1 ELSE pc
    /\ status' = status
    /\ UNCHANGED <<variant, fs, created, wlog, rlog, calls, results, busy, open, env, iter, prev>>

\* The notebook that is run again is the notebook that was run: its input
\* cell holds the values it held in every earlier run that got to it.
Unedited(c, q, p) ==
    \A k \in 1..Len(prev) :
        IF DOMAIN prev[k].inputs = {} THEN TRUE
        ELSE prev[k].inputs = [ligandCode |-> c, mol_charge |-> q, pH |-> p]

\* The input-parameters cell; the three values are the user's to set.
InputParameters ==
    /\ AtCell("input")
    /\ \E c \in LigandCodes, q \in Charges, p \in PHValues :
          /\ Unedited(c, q, p)
          /\ ns' = Assign(Assign(Assign(ns, "ligandCode", c), "mol_charge", q), "pH", p)
    /\ CellEnds(FALSE)
    /\ UNCHANGED <<variant, fs, created, wlog, rlog, calls, results, busy, open, env, iter, prev>>

FetchCell ==
    /\ AtCell("fetch")
    /\ Defined(ns, Reads("fetch"))
    /\ LET n1 == Assign(ns, "input_structure", input_structure(ns["ligandCode"]))
           n2 == Assign(n1, "prop", prop_ligand(n1))
       IN  /\ ns' = n2
           /\ Launch(Call("fetch", "ligand", NoPath, <<n2["input_structure"]>>, n2["prop"]))

\* Mutant: the hydrogen cell goes on only when the fetcher returned 0.
AddHydrogensCellChecking ==
    /\ AtCell("addh")
    /\ Defined(ns, Reads("addh"))
    /\ results # << >>
    /\ results[Len(results)].exit = "0"
    /\ LET n1 == Assign(ns, "output_babel_h", output_babel_h(ns["ligandCode"]))
           n2 == Assign(n1, "prop", prop_add_hydrogens(n1))
       IN  /\ ns' = n2
           /\ Launch(Call("addh", "babel_add_hydrogens", input_of_add_hydrogens(n2),
                          <<n2["output_babel_h"]>>, n2["prop"]))

AddHydrogensCell ==
    /\ AtCell("addh")
    /\ Defined(ns, Reads("addh"))
    /\ LET n1 == Assign(ns, "output_babel_h", output_babel_h(ns["ligandCode"]))
           n2 == Assign(n1, "prop", prop_add_hydrogens(n1))
       IN  /\ ns' = n2
           /\ Launch(Call("addh", "babel_add_hydrogens", input_of_add_hydrogens(n2),
                          <<n2["output_babel_h"]>>, n2["prop"]))

MinimizeCell ==
    /\ AtCell("min")
    /\ Defined(ns, Reads("min"))
    /\ LET n1 == Assign(ns, "output_babel_min", output_babel_min(ns["ligandCode"]))
           n2 == Assign(n1, "prop", prop_minimize)
       IN  /\ ns' = n2
           /\ Launch(Call("min", "babel_minimize", input_of_minimize(n2),
                          <<n2["output_babel_min"]>>, n2["prop"]))

AcpypeGmxCell ==
    /\ AtCell("acpype_gmx")
    /\ Defined(ns, Reads("acpype_gmx"))
    /\ LET c  == ns["ligandCode"]
           n1 == Assign(ns, "output_acpype_gro", output_acpype_gro(c))
           n2 == Assign(n1, "output_acpype_itp", output_acpype_itp(c))
           n3 == Assign(n2, "output_acpype_top", output_acpype_top(c))
           n4 == Assign(n3, "output_acpype", output_acpype(c))
           n5 == Assign(n4, "prop", prop_acpype(n4))
       IN  /\ ns' = n5
           /\ Launch(Call("acpype_gmx", "acpype_params_gmx", input_of_acpype(n5),
                          <<n5["output_acpype_gro"], n5["output_acpype_itp"],
                            n5["output_acpype_top"]>>, n5["prop"]))

AcpypeCnsCell ==
    /\ AtCell("acpype_cns")
    /\ Defined(ns, Reads("acpype_cns"))
    /\ LET c  == ns["ligandCode"]
           n1 == Assign(ns, "output_acpype_inp", output_acpype_inp(c))
           n2 == Assign(n1, "output_acpype_par", output_acpype_par(c))
           n3 == Assign(n2, "output_acpype_top", output_acpype_top(c))
           n4 == Assign(n3, "output_acpype_pdb", output_acpype_pdb(c))
           n5 == Assign(n4, "output_acpype", output_acpype(c))
           n6 == Assign(n5, "prop", prop_acpype(n5))
       IN  /\ ns' = n6
           /\ Launch(Call("acpype_cns", "acpype_params_cns", input_of_acpype(n6),
                          <<n6["output_acpype_inp"], n6["output_acpype_par"],
                            n6["output_acpype_top"]>>, n6["prop"]))

----------------------------------------------------------------------------
(* The call returns.  The cell does not look at the returned exit code.    *)

Returning(s) == status = "in_call" /\ s \in busy /\ calls # << >>

Release(s) ==
    /\ busy' = busy \ {s}
    /\ open' = {o \in open : o[1] # s}

\* What a call reads at its input path.
ReadOf(f, path) ==
    IF path \in DOMAIN f
    THEN [there |-> TRUE, content |-> f[path].content, how |-> f[path].how]
    ELSE [there |-> FALSE]

\* The toolchain is deterministic: a call that an earlier run made with the
\* same tool, the same options and the same input ends as it ended then.
Deterministic(cl, exit, wrote, warned) ==
    \A k \in 1..Len(prev) :
        \A m \in prev[k].memo :
            (m.tool = cl.tool /\ m.props = cl.props /\ m.read = ReadOf(fs, cl.input)) =>
                (m.exit = exit /\ m.wrote = wrote /\ m.warned = warned)

\* Whether the log of a tool that ends with exit code 0 holds a warning.
\* tleap warns that the charge of the unit is not zero (recorded for charge
\* -1); what else the parameter generator may warn about is not recorded;
\* the recorded logs of the other tools hold no warning.
LogWarnings(cl) ==
    IF cl.tool \in {"acpype_params_gmx", "acpype_params_cns"}
    THEN IF cl.props.charge # 0 THEN {TRUE} ELSE BOOLEAN
    ELSE {FALSE}

\* Mutant: the building block raises when the tool's log holds a warning.
FinishStrict(cl, D, exit, wrote, warned) ==
    LET rest == IF warned THEN [disk |-> D, raised |-> TRUE]
                ELSE RestOfCell(D, cl.step, ns)
    IN  /\ Deterministic(cl, exit, wrote, warned)
        /\ SetDisk(rest.disk)
        /\ results' = Append(results,
              [step |-> cl.step, exit |-> exit, wrote |-> wrote, warned |-> warned])
        /\ CellEnds(rest.raised)
        /\ Release(cl.step)
        /\ iter' = 0
        /\ UNCHANGED <<variant, ns, calls, env, prev>>

\* The building block returns the exit code; a warning stays in the log.
Finish(cl, D, exit, wrote, warned) ==
    LET rest == RestOfCell(D, cl.step, ns)
    IN  /\ Deterministic(cl, exit, wrote, warned)
        /\ SetDisk(rest.disk)
        /\ results' = Append(results,
              [step |-> cl.step, exit |-> exit, wrote |-> wrote, warned |-> warned])
        /\ CellEnds(rest.raised)
        /\ Release(cl.step)
        /\ iter' = 0
        /\ UNCHANGED <<variant, ns, calls, env, prev>>

\* Exit code 0: the outputs are written.
ToolSucceeds(s) ==
    /\ Returning(s)
    /\ LET cl == calls[Len(calls)]
       IN  /\ InputGood(cl)
           /\ \E order \in WriteOrders(cl), warned \in LogWarnings(cl) :
                 Finish(cl, WriteFiles(Disk, cl, order, "data"), "0", TRUE, warned)

\* The tool fails and the building block returns its exit code as a value;
\* whether output files are left behind (empty) is the tool's business.
ToolExitsNonZero(s) ==
    /\ Returning(s)
    /\ LET cl == calls[Len(calls)]
       IN  \E wrote \in BOOLEAN :
              \E order \in WriteOrders(cl) :
                 Finish(cl,
                        IF wrote THEN WriteFiles(Disk, cl, order, "empty") ELSE Disk,
                        "nonzero", wrote, FALSE)

\* The building block raises: the cell stops there and so does the run.
ToolRaises(s) ==
    /\ Returning(s)
    /\ LET cl == calls[Len(calls)]
       IN  /\ Deterministic(cl, "raised", FALSE, FALSE)
           /\ results' = Append(results, [step |-> cl.step, exit |-> "raised", wrote |-> FALSE,
                                       warned |-> FALSE])
           /\ CellEnds(TRUE)
           /\ Release(cl.step)
           /\ iter' = 0
           /\ UNCHANGED <<variant, ns, calls, fs, created, wlog, rlog, env, prev>>

----------------------------------------------------------------------------
(* Visualization.                                                          *)

\* The widgets a visualization cell builds: <<variable, path variable>>.
Views(cell) ==
    CASE cell = "viz_fetch" -> << <<"view", "input_structure">> >>
      [] cell = "viz_addh" -> << <<"view", "output_babel_h">> >>
      [] cell = "viz_min" -> << <<"view", "output_babel_min">> >>
      [] cell = "viz_all" -> << <<"view1", "input_structure">>,
                                <<"view2", "output_babel_h">>,
                                <<"view3", "output_babel_min">> >>
      [] cell = "viz_acpype_gmx" -> << <<"view", "output_acpype_gro">> >>
      [] cell = "viz_acpype_cns" -> << <<"view", "output_acpype_pdb">> >>
      [] OTHER -> << >>

VizVars == {"view", "view1", "view2", "view3"}

\* The namespace after the first k widgets of the cell have been built.
RECURSIVE ShowStructures(_, _, _)
ShowStructures(n, views, k) ==
    IF k = 0 THEN n
    ELSE LET m == ShowStructures(n, views, k - 1)
         IN  Assign(m, views[k][1], [structure_file |-> m[views[k][2]]])

\* k widgets are built: show_structure_file opens its file, which raises
\* when the file is not there, and the cell stops at the first that does.
CanShow(cell, k) ==
    /\ k \in 0..Len(Views(cell))
    /\ \A i \in 1..Len(Views(cell)) : i <= k + 1 => Views(cell)[i][2] \in DOMAIN ns
    /\ \A i \in 1..k : ns[Views(cell)[i][2]] \in DOMAIN fs
    /\ k < Len(Views(cell)) => ns[Views(cell)[k + 1][2]] \notin DOMAIN fs

\* Mutant: the cell also saves a snapshot next to the structure files.
VizEffectSaving(cell, k) ==
    /\ ns' = ShowStructures(ns, Views(cell), k)
    /\ fs' = Assign(fs, "view.png", [by |-> cell, format |-> "png", content |-> "data", how |-> << >>])
    /\ UNCHANGED <<variant, created, wlog, rlog, calls, results, busy, open, env, iter, prev>>

VizEffect(cell, k) ==
    /\ ns' = ShowStructures(ns, Views(cell), k)
    /\ UNCHANGED <<variant, fs, created, wlog, rlog, calls, results, busy, open, env, iter, prev>>

\* A visualization cell in its turn.
VizCell ==
    /\ status = "idle" /\ pc <= Len(Cells) /\ Cells[pc] \in VizCells
    /\ \E k \in 0..Len(Views(Cells[pc])) :
          /\ CanShow(Cells[pc], k)
          /\ VizEffect(Cells[pc], k)
          /\ CellEnds(k < Len(Views(Cells[pc])))

\* The user executes again a visualization cell that has been executed.
VizAgain ==
    /\ status \in {"idle", "halted", "done"}
    /\ \E i \in 1..Len(Cells) :
          /\ i < pc
          /\ Cells[i] \in VizCells
          /\ \E k \in 0..Len(Views(Cells[i])) :
                /\ CanShow(Cells[i], k)
                /\ VizEffect(Cells[i], k)
    /\ UNCHANGED <<pc, status>>

----------------------------------------------------------------------------

Next ==
    \/ ColabInstallCell
    \/ ColabWidgetsCell
    \/ InputParameters
    \/ FetchCell
    \/ AddHydrogensCell
    \/ MinimizeCell
    \/ AcpypeGmxCell
    \/ AcpypeCnsCell
    \/ \E s \in PipelineSteps : ToolSucceeds(s)
    \/ \E s \in PipelineSteps : ToolExitsNonZero(s)
    \/ \E s \in PipelineSteps : ToolRaises(s)
    \/ VizCell
    \/ VizAgain

Spec == Init /\ [][Next]_vars

----------------------------------------------------------------------------
(* Vocabulary of the properties.                                           *)

CallIdx == 1..Len(calls)

SetOf(seq) == {seq[i] : i \in 1..Len(seq)}

\* The run went through every cell and every tool ended with exit code 0.
RunComplete ==
    /\ status = "done"
    /\ Len(results) = 4
    /\ \A i \in 1..Len(results) : results[i].exit = "0"

NonEmpty(paths) == \A p \in paths : p \in DOMAIN fs /\ fs[p].content = "data"

----------------------------------------------------------------------------
(* C1: the data flow is a straight chain in both variants: the first call  *)
(* (the fetcher) has no input file, every later call's input path is the   *)
(* one output path of the call before it, which is the call of its         *)
(* predecessor step, whatever that step wrote it wrote to that path, and   *)
(* every file a pipeline step reads (the CNS copy included) was produced   *)
(* by its immediate predecessor step.                                      *)
C1_StraightChain ==
    /\ \A i \in CallIdx :
          IF i = 1
          THEN calls[i].step = "fetch" /\ calls[i].input = NoPath
          ELSE /\ calls[i - 1].step = Pred(calls[i].step)
               /\ calls[i].input = calls[i - 1].outputs[1]
               /\ Len(calls[i - 1].outputs) = 1
               /\ \A w \in SetOf(wlog) :
                     w.step = calls[i - 1].step => w.path = calls[i].input
    /\ \A r \in SetOf(rlog) : r.by \in {Pred(r.step), "nobody"}

\* A CNS run in which all four tools and the copy have read their inputs.
C1_Witness ==
    /\ variant = "CNS"
    /\ RunComplete
    /\ Len(calls) = 4
    /\ Len(rlog) = 4
    /\ \A r \in SetOf(rlog) : r.by = Pred(r.step)

----------------------------------------------------------------------------
(* C2 as stated: for IBP, -1, 7.4 a complete run of the GROMACS notebook   *)
(* has created IBP.pdb, IBP.H.mol2, IBP.H.min.pdb, IBPparams.gro,          *)
(* IBPparams.itp, IBPparams.top, each non-empty, in exactly that order.    *)
IBPRun ==
    /\ variant = "GMX"
    /\ RunComplete
    /\ ns["ligandCode"] = "IBP"
    /\ ns["mol_charge"] = -1
    /\ ns["pH"] = "7.4"

C2_OrderAsStated ==
    IBPRun =>
        /\ created = << "IBP.pdb", "IBP.H.mol2", "IBP.H.min.pdb",
                        "IBPparams.gro", "IBPparams.itp", "IBPparams.top" >>
        /\ NonEmpty(SetOf(created))

(* C2, amended: the same six files, each non-empty, are created in the     *)
(* order IBP.pdb, IBP.H.mol2, IBP.H.min.pdb and then the bundle in the     *)
(* order IBPparams.top, IBPparams.itp, IBPparams.gro.                      *)
C2_EndToEnd ==
    IBPRun =>
        /\ created = << "IBP.pdb", "IBP.H.mol2", "IBP.H.min.pdb",
                        "IBPparams.top", "IBPparams.itp", "IBPparams.gro" >>
        /\ NonEmpty(SetOf(created))

C2_Witness == IBPRun /\ Len(created) = 6

----------------------------------------------------------------------------
(* C3: for every ligand code c the calls use the paths c.pdb, c.H.mol2,    *)
(* c.H.min.pdb and the bundle cparams.gro/.itp/.top (GROMACS) or           *)
(* cparams.inp/.par/.top plus the copy cparams.pdb (CNS); the basename     *)
(* option is cparams and is the prefix of every bundle file name, which    *)
(* is the basename, a dot and the extension; no other file is written.     *)
BundleExts == IF variant = "GMX" THEN {"gro", "itp", "top"} ELSE {"inp", "par", "top", "pdb"}

BundleOf(cl) ==
    SetOf(cl.outputs) \cup (IF cl.step = "acpype_cns" THEN {ns["output_acpype_pdb"]} ELSE {})

C3_FileNames ==
    /\ \A i \in CallIdx :
          LET cl == calls[i]
              c == ns["ligandCode"]
          IN  /\ cl.step = "fetch" => cl.outputs = << c \o ".pdb" >>
              /\ cl.step = "addh" => cl.outputs = << c \o ".H.mol2" >>
              /\ cl.step = "min" => cl.outputs = << c \o ".H.min.pdb" >>
              /\ cl.step = "acpype_gmx" =>
                    cl.outputs = << c \o "params.gro", c \o "params.itp", c \o "params.top" >>
              /\ cl.step = "acpype_cns" =>
                    /\ cl.outputs = << c \o "params.inp", c \o "params.par", c \o "params.top" >>
                    /\ ns["output_acpype_pdb"] = c \o "params.pdb"
              /\ cl.step \in {"acpype_gmx", "acpype_cns"} =>
                    /\ cl.props.basename = c \o "params"
                    /\ {Ext(p) : p \in BundleOf(cl)} = BundleExts
                    /\ \A p \in BundleOf(cl) :
                          /\ IsPrefix(cl.props.basename, p)
                          /\ p = cl.props.basename \o "." \o Ext(p)
    /\ \A p \in DOMAIN fs :
          \E i \in CallIdx : p \in SetOf(calls[i].outputs) \cup BundleOf(calls[i])

\* The CNS bundle and its copy have been written, for a code that is not
\* the CNS notebook's own.
C3_Witness ==
    /\ RunComplete
    /\ variant = "CNS"
    /\ ns["ligandCode"] = "IBP"
    /\ {"IBPparams.inp", "IBPparams.par", "IBPparams.top", "IBPparams.pdb"} \subseteq DOMAIN fs

----------------------------------------------------------------------------
(* C4: any tool failure halts the run: once a call has ended in a failure  *)
(* (an exception or a non-zero exit code) no later step is invoked and no  *)
(* file of a later step is created.                                        *)
Failed(r) == r.exit # "0"

C4_FailureHalts ==
    \A i \in 1..Len(results) :
        Failed(results[i]) =>
            /\ Len(calls) <= i
            /\ \A j \in CallIdx : j > i => SetOf(calls[j].outputs) \cap DOMAIN fs = {}

----------------------------------------------------------------------------
(* C5: execution is strictly sequential: at most one pipeline step is      *)
(* executing, and only while the kernel is blocked in its call; a step is  *)
(* called only when every call before it has returned; no file is held by  *)
(* two steps at the same time.                                             *)
C5_Sequential ==
    /\ Cardinality(busy) <= 1
    /\ busy # {} => status = "in_call"
    /\ Len(results) <= Len(calls) /\ Len(calls) <= Len(results) + 1
    /\ busy # {} <=> Len(calls) = Len(results) + 1
    /\ \A o1 \in open, o2 \in open : o1[2] = o2[2] => o1[1] = o2[1]
    /\ \A o \in open : o[1] \in busy

\* The minimizer is executing, after the two steps before it have returned.
C5_Witness ==
    /\ busy = {"min"}
    /\ Len(results) = 2
    /\ Cardinality(open) = 2

----------------------------------------------------------------------------
(* C6: no retry and no recovery: each tool is invoked at most once in a    *)
(* run, whether it succeeds or fails, and after a step has failed the run  *)
(* neither invokes it again nor goes on to a later step.                   *)
C6_NoRetryNoRecovery ==
    /\ \A i \in CallIdx, j \in CallIdx : calls[i].tool = calls[j].tool => i = j
    /\ \A i \in 1..Len(results) :
          Failed(results[i]) =>
              \A j \in CallIdx : j > i =>
                  /\ calls[j].step # results[i].step
                  /\ Pred(calls[j].step) # results[i].step

----------------------------------------------------------------------------
(* C7: no structure file is mutated in place: the file names of a run are  *)
(* pairwise distinct, no path is written twice (the CNS copy included),    *)
(* every call's output paths differ from its input path, and the copy's    *)
(* destination differs from its source.                                    *)
PathVars ==
    {"input_structure", "output_babel_h", "output_babel_min", "output_acpype_gro",
     "output_acpype_itp", "output_acpype_top", "output_acpype_inp",
     "output_acpype_par", "output_acpype_pdb"}

C7_NeverMutated ==
    /\ \A x \in PathVars \cap DOMAIN ns, y \in PathVars \cap DOMAIN ns :
          ns[x] = ns[y] => x = y
    /\ \A i \in 1..Len(wlog), j \in 1..Len(wlog) : wlog[i].path = wlog[j].path => i = j
    /\ \A i \in CallIdx : calls[i].input \notin SetOf(calls[i].outputs)
    /\ \A r \in SetOf(rlog), w \in SetOf(wlog) :
          r.step = w.step => r.path # w.path
    /\ Len(created) = Len(wlog)

\* A CNS run that has written all seven files, the copy last.
C7_Witness ==
    /\ variant = "CNS"
    /\ RunComplete
    /\ Len(wlog) = 7
    /\ wlog[7] = [step |-> "acpype_cns", path |-> ns["output_acpype_pdb"]]

----------------------------------------------------------------------------
(* C8: each stage's output format is the next stage's input format: the    *)
(* fetcher writes PDB and the hydrogen adder declares input_format pdb;    *)
(* the hydrogen adder declares output_format mol2, writes a .mol2 path     *)
(* and the minimizer reads it as mol2; the minimizer writes a .pdb path    *)
(* that the parameter generator reads as PDB; so every call reads its      *)
(* input as the format the file was written in.                            *)
C8_FormatsMatch ==
    \A i \in CallIdx :
        LET cl == calls[i]
        IN  /\ cl.input \in DOMAIN fs => fs[cl.input].format = cl.read_as
            /\ cl.step = "fetch" =>
                  \A p \in SetOf(cl.outputs) \cap DOMAIN fs : fs[p].format = "pdb"
            /\ cl.step = "addh" =>
                  /\ cl.props.input_format = "pdb"
                  /\ cl.read_as = "pdb"
                  /\ cl.props.output_format = "mol2"
                  /\ Ext(cl.outputs[1]) = "mol2"
            /\ cl.step = "min" =>
                  /\ cl.read_as = "mol2"
                  /\ Ext(cl.outputs[1]) = "pdb"
            /\ cl.step \in {"acpype_gmx", "acpype_cns"} => cl.read_as = "pdb"

\* All four tools have run and the three intermediate files are there.
C8_Witness ==
    /\ variant = "GMX"
    /\ RunComplete
    /\ \A i \in 2..4 : i \in CallIdx /\ calls[i].input \in DOMAIN fs
    /\ fs[ns["output_babel_h"]].format = "mol2"

----------------------------------------------------------------------------
(* C9: visualization has no effect on pipeline data: a visualization       *)
(* cell, in its turn or executed again, leaves every file, every call,     *)
(* every path variable, the three inputs and the control state of the      *)
(* pipeline steps unchanged (it assigns only its view variables); and no   *)
(* pipeline cell reads a view variable or a file a visualization made.     *)
PipelineData(n) == [x \in (DOMAIN n) \ VizVars |-> n[x]]

C9_VizIsSideEffect ==
    /\ [][ (VizCell \/ VizAgain) =>
              /\ PipelineData(ns') = PipelineData(ns)
              /\ UNCHANGED <<fs, created, wlog, rlog, calls, results, busy, open>>
         ]_vars
    /\ [](\A s \in PipelineSteps : Reads(s) \cap VizVars = {})
    /\ [](\A r \in SetOf(rlog) : r.by \notin VizCells)

\* The comparison cell has been executed after the run was over.
C9_Witness ==
    /\ RunComplete
    /\ {"view", "view1", "view2", "view3"} \subseteq DOMAIN ns
    /\ ns["view"] = [structure_file |-> ns["input_structure"]]

----------------------------------------------------------------------------
(* C10: the three inputs reach the tools unchanged: the fetcher's          *)
(* ligand_code is the user's ligandCode, the hydrogen adder's ph is the    *)
(* user's pH, and the parameter generator's charge is the user's           *)
(* mol_charge, passed together with the output basename.                   *)
C10_InputsReachTools ==
    \A i \in CallIdx :
        LET cl == calls[i]
        IN  /\ cl.step = "fetch" =>
                  cl.props = [ligand_code |-> ns["ligandCode"]]
            /\ cl.step = "addh" => cl.props.ph = ns["pH"]
            /\ cl.step \in {"acpype_gmx", "acpype_cns"} =>
                  /\ cl.props.charge = ns["mol_charge"]
                  /\ cl.props.basename = ns["output_acpype"]
                  /\ DOMAIN cl.props = {"basename", "charge"}

\* The parameter generator has been called with a charge other than 0.
C10_Witness ==
    /\ Len(calls) = 4
    /\ ns["mol_charge"] = -1
    /\ ns["pH"] = "2.0"
    /\ calls[4].props.charge = -1
    /\ calls[2].props.ph = "2.0"

----------------------------------------------------------------------------
(* C11: the ligand code, the net charge and the pH are constant through a  *)
(* run: they are bound by the input-parameters cell only, no step of any   *)
(* other cell (pipeline, visualization, Colab) binds or rebinds them, and  *)
(* every file name created in the run starts with the run's ligand code    *)
(* and with no other one.                                                  *)
C11_InputsConstant ==
    /\ [][ /\ \A x \in Inputs \cap DOMAIN ns : x \in DOMAIN ns' /\ ns'[x] = ns[x]
           /\ (Inputs \cap DOMAIN ns' # Inputs \cap DOMAIN ns) =>
                 /\ pc <= Len(Cells)
                 /\ Cells[pc] = "input"
                 /\ Inputs \cap DOMAIN ns = {}
         ]_vars
    /\ [](\A p \in SetOf(created) \cup DOMAIN fs :
             \A c \in LigandCodes : IsPrefix(c, p) <=> c = ns["ligandCode"])

\* A complete GROMACS run for a code that is not the notebook's own.
C11_Witness ==
    /\ variant = "GMX"
    /\ RunComplete
    /\ ns["ligandCode"] = "G39"
    /\ Len(created) = 6
    /\ "view3" \in DOMAIN ns

----------------------------------------------------------------------------
(* C12: the bundle is selected by the notebook variant alone: the GROMACS  *)
(* wrapper is invoked only in a GROMACS run and the CNS wrapper only in a  *)
(* CNS run, no run invokes both, the parameter step of a run is the one    *)
(* cell of its variant, and the files the parameter step creates are       *)
(* .gro/.itp/.top files in a GROMACS run and .inp/.par/.top/.pdb files in  *)
(* a CNS run, all of them once the step has succeeded.                     *)
Wrappers == {"acpype_params_gmx", "acpype_params_cns"}

WrapperOf(v) == IF v = "GMX" THEN "acpype_params_gmx" ELSE "acpype_params_cns"

ParamSteps == {"acpype_gmx", "acpype_cns"}

BundleFiles == {p \in DOMAIN fs : fs[p].by \in ParamSteps}

C12_VariantSelectsBundle ==
    /\ \A i \in CallIdx : calls[i].tool \in Wrappers => calls[i].tool = WrapperOf(variant)
    /\ Cardinality({calls[i].tool : i \in CallIdx} \cap Wrappers) <= 1
    /\ \A i \in CallIdx : calls[i].step \in ParamSteps =>
          calls[i].step = (IF variant = "GMX" THEN "acpype_gmx" ELSE "acpype_cns")
    /\ {Ext(p) : p \in BundleFiles} \subseteq BundleExts
    /\ RunComplete => {Ext(p) : p \in BundleFiles} = BundleExts
    /\ {c \in SetOf(Cells) : c \in ParamSteps} =
          {IF variant = "GMX" THEN "acpype_gmx" ELSE "acpype_cns"}

\* A CNS run has invoked its wrapper and holds the four bundle files.
C12_Witness ==
    /\ variant = "CNS"
    /\ RunComplete
    /\ calls[4].tool = "acpype_params_cns"
    /\ Cardinality(BundleFiles) = 4

----------------------------------------------------------------------------
(* C13: the bundle is a terminal artifact produced once by the final       *)
(* step: every bundle file is written by the parameter-generation step,    *)
(* exactly once in the run, only after the minimized structure exists      *)
(* (the minimizer has written its output and it holds a structure), the    *)
(* parameter step is the last call of the run, and no pipeline step reads  *)
(* a bundle file.                                                          *)
C13_WrittenOnceByFinalStep ==
    /\ \A p \in BundleFiles :
          Cardinality({i \in 1..Len(wlog) : wlog[i].path = p}) = 1
    /\ \A i \in 1..Len(wlog) :
          wlog[i].path \in BundleFiles <=> wlog[i].step \in ParamSteps
    /\ \A i \in CallIdx : calls[i].step \in ParamSteps => i = Len(calls)
    /\ \A r \in SetOf(rlog) : r.by \notin ParamSteps /\ r.path \notin BundleFiles

C13_AfterMinimized ==
    \A i \in 1..Len(wlog) :
        wlog[i].step \in ParamSteps =>
            /\ \E j \in 1..(i - 1) :
                  wlog[j].step = "min" /\ wlog[j].path = ns["output_babel_min"]
            /\ NonEmpty({ns["output_babel_min"]})

C13_TerminalArtifact == C13_WrittenOnceByFinalStep /\ C13_AfterMinimized

----------------------------------------------------------------------------
(* C14 as stated: the mapping passed to a step contains exactly that       *)
(* step's options, and once the call has returned the option set is no     *)
(* longer held by the pipeline.                                            *)
OptionsOf(step) ==
    CASE step = "fetch" -> {"ligand_code"}
      [] step = "addh" -> {"ph", "input_format", "output_format"}
      [] step = "min" -> {"method", "criteria", "force_field"}
      [] step \in ParamSteps -> {"basename", "charge"}
      [] OTHER -> {}

C14_ExactOptions == \A i \in CallIdx : DOMAIN calls[i].props = OptionsOf(calls[i].step)

C14_DiscardedAfter ==
    /\ C14_ExactOptions
    /\ \A i \in 1..Len(results) :
          "prop" \notin DOMAIN ns \/ ns["prop"] # calls[i].props

(* C14, amended: the mapping passed to a step contains exactly that        *)
(* step's options and is built in the cell that makes the call, so the     *)
(* variable prop is bound exactly when a call has been made and always     *)
(* holds the option set of the latest call: it is passed to that call      *)
(* only, and after the call has returned it stays bound, unread, until     *)
(* the next step's cell replaces it (after the last step, for good).       *)
C14_OptionSets ==
    /\ C14_ExactOptions
    /\ "prop" \in DOMAIN ns <=> calls # << >>
    /\ calls # << >> => ns["prop"] = calls[Len(calls)].props
    /\ \A i \in CallIdx, j \in CallIdx : calls[i].props = calls[j].props => i = j
    /\ \A s \in PipelineSteps : "prop" \notin Reads(s)

\* The run is over and prop still holds the parameter generator's options.
C14_Witness ==
    /\ RunComplete
    /\ variant = "GMX"
    /\ ns["prop"] = [basename |-> "IBPparams", charge |-> 1]
    /\ calls[3].props = [method |-> "sd", criteria |-> "1e-10", force_field |-> "GAFF"]

----------------------------------------------------------------------------
(* C15: a warning of the parameter generator is surfaced only as log       *)
(* text: the step that logged it ends with exit code 0 and in that step    *)
(* the cell goes on to the next one with the namespace and the calls       *)
(* untouched; its bundle files are all there and hold data; the run is     *)
(* not halted, at that cell or after it; and no variable of the notebook   *)
(* holds the warning.                                                      *)
Warned(r) == r.warned /\ r.step \in ParamSteps

C15_WarningOnlyLogged ==
    /\ [][ (Len(results') = Len(results) + 1 /\ Warned(results'[Len(results')])) =>
              /\ pc' = pc + 1
              /\ status' \in {"idle", "done"}
              /\ ns' = ns
              /\ calls' = calls
         ]_vars
    /\ [](\A i \in 1..Len(results) :
             Warned(results[i]) =>
                /\ results[i].exit = "0"
                /\ NonEmpty(BundleOf(calls[i]))
                /\ {Ext(p) : p \in BundleFiles} = BundleExts
                /\ status # "halted"
                /\ \A x \in DOMAIN ns : x \in VizVars \cup PathVars \cup Inputs \cup {"prop", "output_acpype"})

\* The recorded run: charge -1, one warning, the three files, the run done.
C15_Witness ==
    /\ IBPRun
    /\ Warned(results[4])
    /\ {"IBPparams.top", "IBPparams.itp", "IBPparams.gro"} \subseteq DOMAIN fs

----------------------------------------------------------------------------
(* Running the notebook again.                                             *)

MaxRuns == 2

Written == {wlog[i].path : i \in 1..Len(wlog)}

\* What a finished run leaves behind.
Left ==
    [inputs |-> [x \in Inputs \cap DOMAIN ns |-> ns[x]],
     fs |-> fs, written |-> Written, results |-> results,
     memo |-> { [tool |-> calls[i].tool, props |-> calls[i].props,
                 read |-> ReadOf(fs, calls[i].input), exit |-> results[i].exit,
                 wrote |-> results[i].wrote, warned |-> results[i].warned] :
                 i \in 1..Len(results) }]

\* The same notebook is run again from its first cell by a fresh kernel
\* started where the first one was: the namespace is empty, the files of
\* the earlier run are where it left them.
Rerun ==
    /\ status \in {"done", "halted"}
    /\ Len(prev) + 1 < MaxRuns
    /\ prev' = Append(prev, Left)
    /\ pc' = 1
    /\ status' = "idle"
    /\ ns' = << >>
    /\ calls' = << >>
    /\ results' = << >>
    /\ wlog' = << >>
    /\ rlog' = << >>
    /\ cwd' = StartDir
    /\ colab_log' = << >>
    /\ colab_exit' = << >>
    /\ UNCHANGED <<variant, fs, created, busy, open, colab, repo, byhand, iter>>

NextRerun == Next \/ Rerun

SpecRerun == Init /\ [][NextRerun]_vars

----------------------------------------------------------------------------
(* C16: running the same notebook again on the same inputs against a       *)
(* deterministic toolchain is idempotent: when an earlier run and this     *)
(* one have both got to the pipeline and this one is over, this run has    *)
(* written the same set of paths as the earlier one, its calls have ended  *)
(* as they ended then, every file it has written is byte for byte what     *)
(* the earlier run left at that path, and the directory holds nothing      *)
(* else; and the files of a complete run are made from that run's own      *)
(* ligand code, pH and net charge, whatever the directory held before.     *)
Earlier == prev[Len(prev)]

SameAsRun(k) ==
    /\ \A x \in Inputs : ns[x] = prev[k].inputs[x]
    /\ Written = prev[k].written
    /\ results = prev[k].results
    /\ \A p \in Written : fs[p] = prev[k].fs[p]
    /\ fs = prev[k].fs

RunOver == status \in {"done", "halted"}

\* The option sets a complete run's bundle is made from, in order.
Chain == << prop_ligand(ns), prop_add_hydrogens(ns), prop_minimize, prop_acpype(ns) >>

MadeFromInputs ==
    /\ fs[ns["input_structure"]].how = SubSeq(Chain, 1, 1)
    /\ fs[ns["output_babel_h"]].how = SubSeq(Chain, 1, 2)
    /\ fs[ns["output_babel_min"]].how = SubSeq(Chain, 1, 3)
    /\ \A p \in SetOf(calls[4].outputs) : fs[p].how = Chain
    /\ variant = "CNS" => fs[ns["output_acpype_pdb"]].how = SubSeq(Chain, 1, 3)
    /\ \A p \in Written : fs[p].content = "data"

----------------------------------------------------------------------------
(* C17: the two Colab cells act only under Google Colab: when              *)
(* 'google.colab' is not a loaded module, executing either of them         *)
(* launches no subprocess (nothing is installed, nothing is cloned),       *)
(* leaves the kernel's working directory and its files as they are, binds  *)
(* no variable of the pipeline and goes on to the next cell; so outside    *)
(* Colab the run never launches anything of theirs and stays in its start  *)
(* directory.                                                              *)
AtColabCell ==
    /\ status = "idle"
    /\ pc <= Len(Cells)
    /\ Cells[pc] \in {"colab_install", "colab_widgets"}

C17_ColabCellsOnlyUnderColab ==
    /\ [][ (~colab /\ AtColabCell) =>
              /\ colab_log' = colab_log
              /\ repo' = repo
              /\ cwd' = cwd
              /\ fs' = fs
              /\ ns' = ns
              /\ calls' = calls
              /\ pc' = pc + 1
              /\ status' = "idle"
         ]_vars
    /\ [](~colab => colab_log = << >> /\ cwd = StartDir)
    /\ [][repo' # repo => colab]_vars

\* Outside Colab, with no clone at hand, both cells have been executed.
C17_Witness ==
    /\ variant = "GMX"
    /\ ~colab
    /\ ~repo
    /\ pc = 3
    /\ status = "idle"
    /\ prev = << >>

----------------------------------------------------------------------------
(* The "Output files" section of each notebook: the variables it lists,    *)
(* with the file name it prints next to each.                              *)
OutputFilesGMX ==
    { [var |-> "output_acpype_gro", ext |-> "gro"],
      [var |-> "output_acpype_top", ext |-> "top"],
      [var |-> "output_acpype_itp", ext |-> "itp"] }

\* The section of the CNS notebook has the text of the GROMACS one.
OutputFilesCNS ==
    { [var |-> "output_acpype_gro", ext |-> "gro"],
      [var |-> "output_acpype_top", ext |-> "top"],
      [var |-> "output_acpype_itp", ext |-> "itp"] }

OutputFiles == IF variant = "GMX" THEN OutputFilesGMX ELSE OutputFilesCNS

(* C18: every file a notebook lists in its "Output files" section is a     *)
(* file a complete run of that notebook has created: the listed variable   *)
(* is bound, to a path with the listed extension, and the parameter step   *)
(* of the run has written a file there.                                    *)
C18_ListedFilesCreated ==
    RunComplete =>
        \A o \in OutputFiles :
            /\ o.var \in DOMAIN ns
            /\ Ext(ns[o.var]) = o.ext
            /\ ns[o.var] \in BundleFiles

----------------------------------------------------------------------------
(* C21: the pipeline never validates an intermediate result: whenever the  *)
(* kernel is at a pipeline cell, that cell makes its call, whatever the    *)
(* calls before it returned and whatever the files hold; a call is made    *)
(* only when no call before it raised; and the parameter generator is      *)
(* given the user's mol_charge, whatever the pH.                           *)
PipelineCell ==
    \/ FetchCell
    \/ AddHydrogensCell
    \/ MinimizeCell
    \/ AcpypeGmxCell
    \/ AcpypeCnsCell

AtPipelineCell == status = "idle" /\ pc <= Len(Cells) /\ Cells[pc] \in PipelineSteps

C21_NoValidation ==
    /\ AtPipelineCell => ENABLED PipelineCell
    /\ \A i \in CallIdx : \A j \in 1..(i - 1) : results[j].exit # "raised"
    /\ \A i \in CallIdx :
          calls[i].step \in ParamSteps => calls[i].props.charge = ns["mol_charge"]

\* All four tools have been called although the first three failed and
\* left empty files, at pH 2.0 with charge -1.
C21_Witness ==
    /\ Len(calls) = 4
    /\ \A i \in 1..3 : results[i].exit = "nonzero" /\ results[i].wrote
    /\ fs[calls[4].input].content = "empty"
    /\ ns["pH"] = "2.0"
    /\ calls[4].props.charge = -1

----------------------------------------------------------------------------
(* C22: a run ends in exactly one of two final states: completed, every    *)
(* call having succeeded and all files of the variant present, or halted   *)
(* at the first failing step with exactly the files of the steps before    *)
(* it present; and the run never goes back to an earlier cell.             *)
FilesOfCalls(k) == UNION {BundleOf(calls[i]) : i \in 1..k}

Completed ==
    /\ status = "done"
    /\ RunComplete
    /\ DOMAIN fs = FilesOfCalls(4)
    /\ {Ext(p) : p \in BundleFiles} = BundleExts

HaltedAtFirstFailure ==
    /\ status = "halted"
    /\ IF results = << >> THEN DOMAIN fs = {}
       ELSE /\ Failed(results[Len(results)])
            /\ \A j \in 1..(Len(results) - 1) : ~Failed(results[j])
            /\ DOMAIN fs = FilesOfCalls(Len(results) - 1)

C22_NeverBack == [][pc' >= pc]_vars

C22_TwoFinalStates ==
    /\ RunOver => (Completed \/ HaltedAtFirstFailure)
    /\ ~(Completed /\ HaltedAtFirstFailure)

----------------------------------------------------------------------------
(* C23: in the CNS notebook the coordinate file cparams.pdb is a copy of   *)
(* the minimized structure made after the parameter generator has          *)
(* returned: it exists only when the generator's call has ended without    *)
(* raising, it is written after every file the generator wrote, it holds   *)
(* what the minimized structure holds, and the step that creates it        *)
(* leaves the minimized structure as it was (written once, by the          *)
(* minimizer).                                                             *)
HasPdbCopy == "output_acpype_pdb" \in DOMAIN ns /\ ns["output_acpype_pdb"] \in DOMAIN fs

SameBytes(a, b) == a.content = b.content /\ a.how = b.how /\ a.format = b.format

C23_PdbIsCopy ==
    /\ [](HasPdbCopy =>
            LET pdb == ns["output_acpype_pdb"]
                min == ns["output_babel_min"]
            IN  /\ variant = "CNS"
                /\ Len(results) = Len(calls)
                /\ results[Len(results)].step = "acpype_cns"
                /\ results[Len(results)].exit # "raised"
                /\ wlog[Len(wlog)] = [step |-> "acpype_cns", path |-> pdb]
                /\ fs[pdb].by = "acpype_cns"
                /\ min \in DOMAIN fs
                /\ fs[min].by = "min"
                /\ SameBytes(fs[pdb], fs[min])
                /\ Cardinality({i \in 1..Len(wlog) : wlog[i].path = min}) = 1)
    /\ [][ (~HasPdbCopy /\ HasPdbCopy') =>
              /\ ns["output_babel_min"] \in DOMAIN fs
              /\ fs'[ns["output_babel_min"]] = fs[ns["output_babel_min"]]
              /\ status = "in_call"
         ]_vars

\* The generator has failed without writing and the copy has been made.
C23_Witness ==
    /\ HasPdbCopy
    /\ results[4].exit = "nonzero"
    /\ ~results[4].wrote
    /\ fs[ns["output_acpype_pdb"]].content = "data"
    /\ Cardinality(BundleFiles) = 1

----------------------------------------------------------------------------
(* C24: under Google Colab, whenever the install cell has completed        *)
(* without error the repository directory exists, and so the second        *)
(* cell's change of directory does not raise.                              *)
InstallCellCompleted == variant = "GMX" /\ pc > 1

C24_RepoAfterInstall ==
    (colab /\ InstallCellCompleted) =>
        /\ repo
        /\ ~(status = "halted" /\ Cells[pc] = "colab_widgets")

----------------------------------------------------------------------------
(* C25: when conda is not found the install cell runs its commands in a    *)
(* fixed order: condacolab is installed first (pip, then its install()),   *)
(* the repository is cloned at most once, right after git is installed,    *)
(* and not at all when its directory is already there, the environment     *)
(* update runs only when that directory exists and after the clone, and    *)
(* the nglview/ipywidgets installation is the last command, right after    *)
(* the environment update.                                                 *)
Idx(x) == {i \in 1..Len(colab_log) : colab_log[i] = x}

PipCondacolab == "pip install condacolab"

CondacolabInstall == "condacolab.install()"

InstallGit == "mamba install -y git"

GitClone == "git clone " \o RepoURL

EnvUpdate == "mamba env update -n base -f " \o RepoName \o "/conda_env/environment.yml"

InstallNglview == "mamba install -y -c conda-forge nglview==3.0.8 ipywidgets=7.7.2"

BootstrapCommands ==
    {PipCondacolab, CondacolabInstall, InstallGit, GitClone, EnvUpdate, InstallNglview}

C25_BootstrapOrder ==
    /\ [](/\ Idx(PipCondacolab) \subseteq {1}
          /\ Idx(CondacolabInstall) \subseteq {2} /\ (Idx(CondacolabInstall) # {} => Idx(PipCondacolab) = {1})
          /\ Idx(InstallGit) \subseteq {3} /\ (Idx(InstallGit) # {} => Idx(CondacolabInstall) = {2})
          /\ Idx(GitClone) \subseteq {4} /\ (Idx(GitClone) # {} => Idx(InstallGit) = {3})
          /\ \A i \in Idx(EnvUpdate) :
                /\ repo
                /\ Idx(CondacolabInstall) = {2}
                /\ Idx(GitClone) \in {{}, {i - 1}}
                /\ Cardinality(Idx(EnvUpdate)) = 1
          /\ \A i \in Idx(InstallNglview) :
                /\ Idx(EnvUpdate) = {i - 1}
                /\ \A j \in 1..Len(colab_log) : colab_log[j] \in BootstrapCommands => j <= i)
    /\ [][repo => Idx(GitClone)' = Idx(GitClone)]_vars

\* Conda was missing and so was the repository: all six commands have run.
C25_Witness ==
    /\ Len(colab_log) >= 6
    /\ Idx(GitClone) = {4}
    /\ Idx(EnvUpdate) = {5}
    /\ Idx(InstallNglview) = {6}
    /\ repo
    /\ pc > 1

----------------------------------------------------------------------------
(* C26: in the install cell only a missing conda executable is handled.    *)
(* Every command that runs has an exit status; a command that exits        *)
(* non-zero, 'conda -V' included, is the last one the cell launches and    *)
(* leaves the run halted at the install cell; and the bootstrap commands   *)
(* run only when 'conda -V' could not be run at all.                       *)
C26_FailedCommandStopsCell ==
    /\ Len(colab_exit) = Len(colab_log)
    /\ \A i \in 1..Len(colab_exit) :
          colab_exit[i] # "0" =>
              /\ i = Len(colab_log)
              /\ status = "halted"
              /\ pc = 1 /\ Cells[pc] = "colab_install"
    /\ Idx("conda -V") # {} =>
          \A j \in 1..Len(colab_log) : colab_log[j] \notin BootstrapCommands

\* 'conda -V' itself exited non-zero: the cell stopped and nothing else ran.
C26_Witness ==
    /\ colab
    /\ colab_log = << "conda -V" >>
    /\ colab_exit = << "nonzero" >>
    /\ status = "halted"

----------------------------------------------------------------------------
(* Names: what each code cell imports and what it reads from cells before  *)
(* it.                                                                     *)

\* Mutant: the input cell does not import nglview.
ImportsWithoutNglview(cell) ==
    CASE cell = "colab_install" ->
            {"sys"} \cup (IF colab THEN {"subprocess", "Path"} ELSE {})
                    \cup (IF \E i \in Idx(PipCondacolab) : colab_exit[i] = "0"
                          THEN {"condacolab"} ELSE {})
      [] cell = "colab_widgets" -> IF colab THEN {"output", "os"} ELSE {}
      [] cell = "input" -> {"ipywidgets", "os"}
      [] cell = "fetch" -> {"ligand"}
      [] cell = "addh" -> {"babel_add_hydrogens"}
      [] cell = "min" -> {"babel_minimize"}
      [] cell = "acpype_gmx" -> {"acpype_params_gmx"}
      [] cell = "acpype_cns" -> {"shutil", "acpype_params_cns"}
      [] OTHER -> {}

\* The names the import statements of a cell bind when the cell is executed
\* to its end: 'import sys' stands before the Colab test, the other imports
\* of the Colab cells behind it, condacolab behind its installation.
Imports(cell) ==
    CASE cell = "colab_install" ->
            {"sys"} \cup (IF colab THEN {"subprocess", "Path"} ELSE {})
                    \cup (IF \E i \in Idx(PipCondacolab) : colab_exit[i] = "0"
                          THEN {"condacolab"} ELSE {})
      [] cell = "colab_widgets" -> IF colab THEN {"output", "os"} ELSE {}
      [] cell = "input" -> {"nglview", "ipywidgets", "os"}
      [] cell = "fetch" -> {"ligand"}
      [] cell = "addh" -> {"babel_add_hydrogens"}
      [] cell = "min" -> {"babel_minimize"}
      [] cell = "acpype_gmx" -> {"acpype_params_gmx"}
      [] cell = "acpype_cns" -> {"shutil", "acpype_params_cns"}
      [] OTHER -> {}

\* The names a cell reads that it does not bind itself before reading them.
FreeNames(cell) ==
    CASE cell = "colab_widgets" -> {"sys"}
      [] cell \in PipelineSteps -> Reads(cell)
      [] cell = "viz_all" ->
            {"nglview", "ipywidgets"} \cup {Views(cell)[i][2] : i \in 1..Len(Views(cell))}
      [] cell \in VizCells ->
            {"nglview"} \cup {Views(cell)[i][2] : i \in 1..Len(Views(cell))}
      [] OTHER -> {}

\* The names bound by import in the cells executed so far.
Imported == UNION {Imports(Cells[i]) : i \in 1..(pc - 1)}

----------------------------------------------------------------------------
(* C27: when the cells of either notebook are executed in document order,  *)
(* every name the cell whose turn it is reads (an input, a path variable,  *)
(* sys, nglview, ipywidgets) has been assigned or imported by a cell       *)
(* executed before it, and every building block a cell calls is imported   *)
(* by that cell; so no cell stops on an undefined name.                    *)
C27_NamesDefined ==
    /\ (status = "idle" /\ pc <= Len(Cells)) =>
          FreeNames(Cells[pc]) \subseteq (DOMAIN ns) \cup Imported
    /\ \A i \in CallIdx : calls[i].tool \in Imports(calls[i].step)

\* The comparison cell's turn in a run under Colab: it reads two modules
\* and three path variables.
C27_Witness ==
    /\ AtCell("viz_all")
    /\ variant = "GMX"
    /\ colab
    /\ Cardinality(FreeNames("viz_all")) = 5

----------------------------------------------------------------------------
(* Cells executed in any order: the user takes over from the run, selects  *)
(* a cell by hand and executes it, and then another.  The user's part is   *)
(* explored for MaxByHand selections, made before MaxCalls calls.          *)

MaxByHand == 2

MaxCalls == 2

\* The kernel is not busy and the user selects a cell to execute by hand.
SelectCell ==
    /\ status \in {"idle", "halted", "done"}
    /\ byhand < MaxByHand
    /\ Len(calls) < MaxCalls
    /\ byhand' = byhand + 1
    /\ \E i \in 1..Len(Cells) : pc' = i
    /\ status' = "idle"
    /\ UNCHANGED <<variant, ns, fs, created, wlog, rlog, calls, results, busy, open,
                   colab, repo, cwd, colab_log, colab_exit, iter, prev>>

NextAnyOrder == Next \/ SelectCell

SpecAnyOrder == Init /\ [][NextAnyOrder]_vars

----------------------------------------------------------------------------
(* C28: whatever the order in which cells are executed and re-executed,    *)
(* the input path and the output paths of one call of a building block     *)
(* carry the same ligand code.                                             *)
SameLigand(p, q) == \A c \in LigandCodes : IsPrefix(c, p) <=> IsPrefix(c, q)

C28_SameLigandPerCall ==
    \A i \in CallIdx :
        calls[i].input # NoPath =>
            \A o \in PathsOf(calls[i]) : SameLigand(calls[i].input, o)

----------------------------------------------------------------------------
(* The minimizer at work, as its recorded output shows it: steepest        *)
(* descent from step 0, one line of the log every Frequency steps, up to   *)
(* STEPS steps; it may stop before that (the criterion is met, or it       *)
(* fails), which is the return of the call.                                *)

DefaultSteps == 2500

Frequency == 10

\* Mutant: the step limit is looked at only after the steps have been taken.
StepsOfLate(props) ==
    IF "steps" \in DOMAIN props THEN props.steps ELSE DefaultSteps + Frequency

\* The step limit of a run: the option when there is one ("-n"), else the
\* default ("Steps is not correct, assigned default value: 2500").
StepsOf(props) ==
    IF "steps" \in DOMAIN props THEN props.steps ELSE DefaultSteps

MinimizerRunning ==
    /\ status = "in_call"
    /\ calls # << >>
    /\ calls[Len(calls)].tool = "babel_minimize"

\* The minimizer has a structure to work on, the criterion is not met yet
\* and the limit not reached: Frequency more steps, and a line of the log.
MinimizerIterates ==
    /\ MinimizerRunning
    /\ InputGood(calls[Len(calls)])
    /\ iter < StepsOf(calls[Len(calls)].props)
    /\ iter' = IF iter + Frequency > StepsOf(calls[Len(calls)].props)
               THEN StepsOf(calls[Len(calls)].props)
               ELSE iter + Frequency
    /\ UNCHANGED <<variant, pc, status, ns, fs, created, wlog, rlog, calls, results,
                   busy, open, env, prev>>

NextMinimize == Next \/ MinimizerIterates

SpecMinimize == Init /\ [][NextMinimize]_vars

----------------------------------------------------------------------------
(* C29: the minimizer is called with method sd, criterion 1e-10 and force  *)
(* field GAFF and no step limit, so the default limit of 2500 steps is the *)
(* one in force: the running minimizer never goes past step 2500, and at   *)
(* step 2500 it takes no further step, whether or not the criterion has    *)
(* been met: all that can follow is the return of the call.                *)
C29_StopsAtDefaultSteps ==
    /\ \A i \in CallIdx :
          calls[i].tool = "babel_minimize" =>
              /\ calls[i].props = [method |-> "sd", criteria |-> "1e-10", force_field |-> "GAFF"]
              /\ StepsOf(calls[i].props) = DefaultSteps
    /\ iter <= DefaultSteps
    /\ iter > 0 => MinimizerRunning
    /\ (MinimizerRunning /\ iter = DefaultSteps) =>
          /\ ~ENABLED MinimizerIterates
          /\ ENABLED (\E s \in PipelineSteps : ToolSucceeds(s))

\* The minimizer has taken all its steps and has not returned yet.
C29_Witness ==
    /\ MinimizerRunning
    /\ iter = DefaultSteps

====
